---- MODULE Spec2Model ----
(***************************************************************************)
(* A model of todoman/formatters.py: the colour mapper rgb_to_ansi and the *)
(* three formatter classes DefaultFormatter, HumanizedFormatter and        *)
(* PorcelainFormatter.                                                     *)
(*                                                                         *)
(* Python values are tagged records: None, booleans, integers, strings     *)
(* (sequences of one-character strings or of text tokens), dates,          *)
(* date-times and raised exceptions.                                       *)
(***************************************************************************)
EXTENDS Integers, Sequences, FiniteSets, TLC

VARIABLES
    self,    \* the formatter instance: its class and the fields __init__ sets
    clock,   \* the wall clock datetime.datetime.now() would read
    frame,   \* the last completed call: operation, argument, outcome
    parse    \* the activation of DefaultFormatter.parse_datetime in flight

vars == <<self, clock, frame, parse>>

----------------------------------------------------------------------------
(* Bounds of the model.                                                    *)

MaxColourLen == 8      \* longest colour string given to rgb_to_ansi
MaxPriorityLen == 3    \* longest priority text given to parse_priority
MaxTextLen == 3        \* longest date/time text (in tokens) given to parse_datetime
MaxTodos == 2          \* longest collection given to compact_multiple
MaxClock == 3          \* the wall clock stops advancing here
TicksPerSecond == 2    \* resolution of an instant: ticks per second
DayLen == 2            \* seconds per calendar day in the model's calendar

----------------------------------------------------------------------------
(* Python values.                                                          *)

None == [kind |-> "None"]
PyInt(n) == [kind |-> "int", v |-> n]
PyStr(s) == [kind |-> "str", s |-> s]
PyBool(b) == [kind |-> "bool", v |-> b]
Raise(e) == [kind |-> "raise", exc |-> e]

\* All sequences over S of length at most n.
SeqsUpTo(S, n) == UNION {[1..k -> S] : k \in 0..n}

\* Python's slice s[a:b] for 0 <= a <= b (indices counted from 0, clipped).
Slice(s, a, b) ==
    LET hi == IF b < Len(s) THEN b ELSE Len(s)
    IN  IF a >= hi THEN <<>> ELSE SubSeq(s, a + 1, hi)

\* Integer division truncating toward zero, as Python's int() of a float.
Trunc(n, d) == IF n >= 0 THEN n \div d ELSE -((-n) \div d)

----------------------------------------------------------------------------
(* rgb_to_ansi.                                                            *)

ColourChars == {"#", "1", "f", "g", "+"}

HexDigits == {"1", "f"}

HexVal(c) == IF c = "1" THEN 1 ELSE 15

\* int(s, 16) for a string of the colour alphabet: an optional sign, then
\* one or more hex digits; anything else raises ValueError.
IsHexLiteral(s) ==
    LET body == IF Len(s) > 0 /\ s[1] = "+" THEN Tail(s) ELSE s
    IN  /\ Len(body) > 0
        /\ \A i \in 1..Len(body) : body[i] \in HexDigits

RECURSIVE HexNum(_)
HexNum(s) ==
    IF Len(s) = 0 THEN 0
    ELSE IF s[1] = "+" THEN HexNum(Tail(s))
    ELSE 16 * HexNum(SubSeq(s, 1, Len(s) - 1)) + HexVal(s[Len(s)])

Ansi(r, g, b) == [kind |-> "ansi", r |-> r, g |-> g, b |-> b]

rgb_to_ansi(colour) ==
    IF colour = None \/ colour.s = <<>> \/ colour.s[1] # "#" THEN None
    ELSE LET r == Slice(colour.s, 1, 3)
             g == Slice(colour.s, 3, 5)
             b == Slice(colour.s, 5, 7)
         IN  IF ~(Len(r) = Len(g) /\ Len(g) = Len(b) /\ Len(b) = 2) THEN None
             ELSE IF ~(IsHexLiteral(r) /\ IsHexLiteral(g) /\ IsHexLiteral(b))
                  THEN Raise("ValueError")
             ELSE Ansi(HexNum(r), HexNum(g), HexNum(b))

Colours == {None} \cup {PyStr(s) : s \in SeqsUpTo(ColourChars, MaxColourLen)}

----------------------------------------------------------------------------
(* Dates, date-times and time zones.                                       *)
(*                                                                         *)
(* A date is a day number.  A date-time is a wall-clock reading in ticks   *)
(* (counted from midnight of day 0) with a tzinfo: None for a naive value, *)
(* else a zone with its UTC offset in seconds.                             *)

Tz(off) == [kind |-> "tz", off |-> off]
UTC == Tz(0)
Date(day) == [kind |-> "date", day |-> day]
DateTime(wall, tz) == [kind |-> "datetime", wall |-> wall, tz |-> tz]

DayTicks == DayLen * TicksPerSecond

IsDateTime(v) == v.kind = "datetime"
IsDate(v) == v.kind = "date"

\* datetime.date(): the calendar day of the wall-clock reading.
DateOf(dt) == Date(dt.wall \div DayTicks)

\* datetime.time(): the time of day, in ticks.
TimeOf(dt) == dt.wall % DayTicks

\* datetime.combine(date, time): a naive date-time.
Combine(d, t) == DateTime(d.day * DayTicks + t, None)

\* dt.replace(tzinfo=tz)
ReplaceTz(dt, tz) == DateTime(dt.wall, tz)

\* The instant of a date-time in ticks since the epoch; a naive value is
\* read in the system's local zone.
Instant(dt) ==
    IF dt.tz = None THEN dt.wall - clock.tzlocal.off * TicksPerSecond
    ELSE dt.wall - dt.tz.off * TicksPerSecond

----------------------------------------------------------------------------
(* Text of dates and times.                                                *)
(*                                                                         *)
(* A pattern is a sequence of directives and literals; a text is a         *)
(* sequence of tokens: the text of a calendar day, the text of a time of   *)
(* day (whole seconds), a literal, or a word.                              *)

DateDirective == [tok |-> "directive", of |-> "date"]    \* such as %Y-%m-%d
TimeDirective == [tok |-> "directive", of |-> "time"]    \* such as %H:%M
Lit(c) == [tok |-> "lit", c |-> c]
DateTok(day) == [tok |-> "date", day |-> day]
TimeTok(sec) == [tok |-> "time", sec |-> sec]
Word == [tok |-> "word"]

\* The day strptime gives a text that names no day (1900-01-01).
StrptimeDefaultDay == -1

\* str.join over the non-empty parts: sep.join(filter(bool, parts)).
RECURSIVE JoinNonEmpty(_, _)
JoinNonEmpty(sep, parts) ==
    IF Len(parts) = 0 THEN <<>>
    ELSE IF Head(parts) = <<>> THEN JoinNonEmpty(sep, Tail(parts))
    ELSE LET rest == JoinNonEmpty(sep, Tail(parts))
         IN  IF rest = <<>> THEN Head(parts) ELSE Head(parts) \o sep \o rest

\* strftime: a date renders its time of day as midnight.
Strftime(v, pattern) ==
    LET day == IF IsDateTime(v) THEN DateOf(v).day ELSE v.day
        sec == IF IsDateTime(v) THEN TimeOf(v) \div TicksPerSecond ELSE 0
    IN  [i \in 1..Len(pattern) |->
            IF pattern[i] = DateDirective THEN DateTok(day)
            ELSE IF pattern[i] = TimeDirective THEN TimeTok(sec)
            ELSE pattern[i]]

\* Whether strptime(text, pattern) succeeds: the whole text matches the
\* pattern, directive by directive and literal by literal.
StrptimeMatches(text, pattern) ==
    /\ Len(text) = Len(pattern)
    /\ \A i \in 1..Len(pattern) :
          IF pattern[i] = DateDirective THEN text[i].tok = "date"
          ELSE IF pattern[i] = TimeDirective THEN text[i].tok = "time"
          ELSE text[i] = pattern[i]

\* strptime(text, pattern) where it succeeds: a naive date-time.
Strptime(text, pattern) ==
    LET days == {text[i].day : i \in {j \in 1..Len(text) : text[j].tok = "date"}}
        secs == {text[i].sec : i \in {j \in 1..Len(text) : text[j].tok = "time"}}
        day == IF days = {} THEN StrptimeDefaultDay ELSE CHOOSE d \in days : TRUE
        sec == IF secs = {} THEN 0 ELSE CHOOSE t \in secs : TRUE
    IN  DateTime(day * DayTicks + sec * TicksPerSecond, None)

----------------------------------------------------------------------------
(* The formatter instance.                                                 *)

Classes == {"DefaultFormatter", "HumanizedFormatter", "PorcelainFormatter"}

\* datetime.datetime.now(): the naive local reading of the wall clock.
DatetimeNow(clk) == DateTime(clk.utc + clk.tzlocal.off * TicksPerSecond, None)

\* DefaultFormatter.__init__ (inherited by the other two classes).
FormatterInit(cls, date_format, time_format, dt_separator, tz_override, clk) ==
    LET tz == IF tz_override # None THEN tz_override ELSE clk.tzlocal
    IN  [ cls             |-> cls,
          date_format     |-> date_format,
          time_format     |-> time_format,
          dt_separator    |-> dt_separator,
          datetime_format |-> JoinNonEmpty(dt_separator, <<date_format, time_format>>),
          tz              |-> tz,
          now             |-> ReplaceTz(DatetimeNow(clk), tz) ]

----------------------------------------------------------------------------
(* format_datetime and the structured parse_datetime.                      *)

\* Python truth of a value: None, 0, '' and False are false.
Truthy(v) ==
    CASE v.kind = "None" -> FALSE
      [] v.kind = "int"  -> v.v # 0
      [] v.kind = "str"  -> v.s # <<>>
      [] v.kind = "bool" -> v.v
      [] OTHER           -> TRUE

Default_format_datetime(f, dt) ==
    IF ~Truthy(dt) THEN PyStr(<<>>)
    ELSE IF IsDateTime(dt) THEN PyStr(Strftime(dt, f.datetime_format))
    ELSE PyStr(Strftime(dt, f.date_format))

\* humanize.naturaltime of a difference of d ticks (positive: in the past).
NaturalTime(d) ==
    IF d = 0 THEN <<Lit("now")>>
    ELSE IF d > 0 THEN <<[tok |-> "delta", ticks |-> d], Lit(" ago")>>
    ELSE <<[tok |-> "delta", ticks |-> -d], Lit(" from now")>>

Humanized_format_datetime(f, dt) ==
    IF ~Truthy(dt) THEN PyStr(<<>>)
    ELSE IF ~IsDateTime(dt) \/ dt.tz = None THEN Raise("TypeError")
    ELSE LET rv == NaturalTime(Instant(f.now) - Instant(dt))
         IN  IF \E i \in 1..Len(rv) : rv[i] = Lit(" from now")
             THEN PyStr(<<Lit("in ")>> \o SubSeq(rv, 1, Len(rv) - 1))
             ELSE PyStr(rv)

Porcelain_format_datetime(f, date) ==
    IF Truthy(date)
    THEN LET dt == IF IsDate(date) THEN Combine(date, 0) ELSE date
         IN  PyInt(Trunc(Instant(dt), TicksPerSecond))
    ELSE None

Porcelain_parse_datetime(f, value) ==
    IF Truthy(value) THEN DateTime(value.v * TicksPerSecond, UTC)
    ELSE None

\* self.format_datetime: the method the instance's class resolves to.
format_datetime(f, dt) ==
    CASE f.cls = "PorcelainFormatter" -> Porcelain_format_datetime(f, dt)
      [] f.cls = "HumanizedFormatter" -> Humanized_format_datetime(f, dt)
      [] OTHER                        -> Default_format_datetime(f, dt)

----------------------------------------------------------------------------
(* Priorities.                                                             *)

PriorityChars == {"-", "0", "1", "9", "a", " "}

Digits == {"0", "1", "9"}

DigitVal(c) == IF c = "0" THEN 0 ELSE IF c = "1" THEN 1 ELSE 9

\* str.strip(): without the leading and trailing blanks.
RECURSIVE Strip(_)
Strip(s) ==
    IF Len(s) = 0 THEN s
    ELSE IF s[1] = " " THEN Strip(Tail(s))
    ELSE IF s[Len(s)] = " " THEN Strip(SubSeq(s, 1, Len(s) - 1))
    ELSE s

\* Whether int(s) succeeds: blanks around an optional sign and digits.
IsIntLiteral(s) ==
    LET t == Strip(s)
        body == IF Len(t) > 0 /\ t[1] = "-" THEN Tail(t) ELSE t
    IN  /\ Len(body) > 0
        /\ \A i \in 1..Len(body) : body[i] \in Digits

RECURSIVE DecNum(_)
DecNum(s) ==
    IF Len(s) = 0 THEN 0
    ELSE 10 * DecNum(SubSeq(s, 1, Len(s) - 1)) + DigitVal(s[Len(s)])

\* int(s) where it succeeds.
IntOf(s) ==
    LET t == Strip(s)
    IN  IF t[1] = "-" THEN -DecNum(Tail(t)) ELSE DecNum(t)

Default_parse_priority(f, priority) ==
    IF priority = None \/ priority = PyStr(<<>>) THEN None
    ELSE IF priority = PyStr(<<"low">>) THEN PyInt(9)
    ELSE IF priority = PyStr(<<"medium">>) THEN PyInt(5)
    ELSE IF priority = PyStr(<<"high">>) THEN PyInt(4)
    ELSE IF priority = PyStr(<<"none">>) THEN PyInt(0)
    ELSE Raise("ValueError")

\* As Porcelain_parse_priority with the range check outside the try block:
\* an integer out of range escapes as the plain ValueError.
Porcelain_parse_priority_RangeUncaught(f, priority) ==
    IF priority = None THEN None
    ELSE IF ~IsIntLiteral(priority.s) THEN Raise("click.BadParameter")
    ELSE IF IntOf(priority.s) \in 0..9 THEN PyInt(IntOf(priority.s))
    ELSE Raise("ValueError")

Porcelain_parse_priority(f, priority) ==
    IF priority = None THEN None
    ELSE IF ~IsIntLiteral(priority.s) THEN Raise("click.BadParameter")
    ELSE IF IntOf(priority.s) \in 0..9 THEN PyInt(IntOf(priority.s))
    ELSE Raise("click.BadParameter")

parse_priority(f, priority) ==
    IF f.cls = "PorcelainFormatter" THEN Porcelain_parse_priority(f, priority)
    ELSE Default_parse_priority(f, priority)

\* As format_priority with the band of high ending at 3.
format_priority_BandShifted(f, priority) ==
    IF ~Truthy(priority) THEN PyStr(<<"none">>)
    ELSE IF 1 <= priority.v /\ priority.v <= 3 THEN PyStr(<<"high">>)
    ELSE IF priority.v = 4 \/ priority.v = 5 THEN PyStr(<<"medium">>)
    ELSE IF 6 <= priority.v /\ priority.v <= 9 THEN PyStr(<<"low">>)
    ELSE None

format_priority(f, priority) ==
    IF ~Truthy(priority) THEN PyStr(<<"none">>)
    ELSE IF 1 <= priority.v /\ priority.v <= 4 THEN PyStr(<<"high">>)
    ELSE IF priority.v = 5 THEN PyStr(<<"medium">>)
    ELSE IF 6 <= priority.v /\ priority.v <= 9 THEN PyStr(<<"low">>)
    ELSE None

\* As format_priority_compact with the markers of high and low exchanged.
format_priority_compact_Exchanged(f, priority) ==
    IF ~Truthy(priority) THEN PyStr(<<>>)
    ELSE IF 1 <= priority.v /\ priority.v <= 4 THEN PyStr(<<Lit("!")>>)
    ELSE IF priority.v = 5 THEN PyStr(<<Lit("!"), Lit("!")>>)
    ELSE IF 6 <= priority.v /\ priority.v <= 9 THEN PyStr(<<Lit("!"), Lit("!"), Lit("!")>>)
    ELSE None

format_priority_compact(f, priority) ==
    IF ~Truthy(priority) THEN PyStr(<<>>)
    ELSE IF 1 <= priority.v /\ priority.v <= 4 THEN PyStr(<<Lit("!"), Lit("!"), Lit("!")>>)
    ELSE IF priority.v = 5 THEN PyStr(<<Lit("!"), Lit("!")>>)
    ELSE IF 6 <= priority.v /\ priority.v <= 9 THEN PyStr(<<Lit("!")>>)
    ELSE None

PriorityNames == {<<"low">>, <<"medium">>, <<"high">>, <<"none">>}

PriorityTexts ==
    {None} \cup {PyStr(s) : s \in SeqsUpTo(PriorityChars, MaxPriorityLen) \cup PriorityNames}

PriorityInts == {None} \cup {PyInt(n) : n \in (0 - 2)..11}

----------------------------------------------------------------------------
(* Rendering of records.                                                   *)

\* An SGR escape sequence of click: "31" is the red foreground, "0" resets.
Sgr(code) == [tok |-> "sgr", code |-> code]

\* click.style(text, fg=...): the colour code when one is given, the text,
\* and the reset code, which click appends in either case.
ClickStyle(text, fg) ==
    (IF fg = "red" THEN <<Sgr("31")>> ELSE <<>>) \o text \o <<Sgr("0")>>

\* The text of a value inside str.format: None renders as the word None.
Text(v) ==
    CASE v.kind = "str"  -> v.s
      [] v.kind = "ansi" -> <<v>>
      [] OTHER           -> <<[tok |-> "repr", of |-> v]>>

\* x or '' for a value x.
OrEmpty(v) == IF Truthy(v) THEN v ELSE PyStr(<<>>)

\* As format_database with the format string '{}{}'.
format_database_NoAt(f, database) ==
    LET colour == rgb_to_ansi(database.colour)
    IN  IF colour.kind = "raise" THEN colour
        ELSE PyStr(Text(OrEmpty(colour)) \o ClickStyle(Text(database.name), "default"))

format_database(f, database) ==
    LET colour == rgb_to_ansi(database.colour)
    IN  IF colour.kind = "raise" THEN colour
        ELSE PyStr(Text(OrEmpty(colour)) \o <<Lit("@")>>
                   \o ClickStyle(Text(database.name), "default"))

Default_simple_action(f, action, todo) ==
    PyStr(Text(action) \o <<Lit(" \"")>> \o Text(todo.summary) \o <<Lit("\"")>>)

\* As DueNotAfter with < for <=.
DueNotAfter_Strict(due, now) ==
    IF IsDate(due) THEN due.day < now.day ELSE Instant(due) < Instant(now)

\* due <= now in compact_multiple: dates compare by day, aware date-times
\* by instant; a naive date-time does not compare with the aware now.
DueNotAfter(due, now) ==
    IF IsDate(due) THEN due.day <= now.day ELSE Instant(due) <= Instant(now)

\* One pass of the loop of DefaultFormatter.compact_multiple: the row of a
\* record, or the exception the pass raises.
CompactRow(f, todo, hide_list) ==
    LET completed == IF todo.is_completed THEN Lit("X") ELSE Lit(" ")
        percent == IF Truthy(todo.percent_complete)
                   THEN <<Lit(" ("), [tok |-> "repr", of |-> todo.percent_complete], Lit("%)")>>
                   ELSE <<>>
        priority == format_priority_compact(f, todo.priority)
        due == format_datetime(f, todo.due)
        now == IF IsDateTime(todo.due) THEN f.now ELSE DateOf(f.now)
        overdue == /\ Truthy(todo.due)
                   /\ DueNotAfter(todo.due, now)
                   /\ ~todo.is_completed
        recurring == IF todo.is_recurring THEN <<Lit("recurring")>> ELSE <<>>
        database == format_database(f, todo.list)
    IN  IF due.kind = "raise" THEN due
        ELSE IF IsDateTime(todo.due) /\ todo.due.tz = None THEN Raise("TypeError")
        ELSE IF ~hide_list /\ database.kind = "raise" THEN database
        ELSE [ kind     |-> "row",
               id       |-> todo.id,
               mark     |-> <<Lit("["), completed, Lit("]")>>,
               priority |-> priority,
               due      |-> (IF overdue THEN ClickStyle(Text(due), "red") ELSE Text(due))
                            \o <<Lit(" ")>> \o recurring,
               summary  |-> IF hide_list
                            THEN Text(todo.summary) \o <<Lit(" ")>> \o percent
                            ELSE Text(todo.summary) \o <<Lit(" ")>> \o Text(database)
                                 \o percent ]

\* tabulate(table, tablefmt='plain'): the rows, laid out without borders.
Tabulate(rows) == [kind |-> "table", rows |-> rows]

Default_compact_multiple(f, todos, hide_list) ==
    LET rows == [i \in 1..Len(todos) |-> CompactRow(f, todos[i], hide_list)]
        raised == {i \in 1..Len(todos) : rows[i].kind = "raise"}
    IN  IF raised = {} THEN Tabulate(rows)
        ELSE rows[CHOOSE i \in raised : \A j \in raised : i <= j]

Default_compact(f, todo) == Default_compact_multiple(f, <<todo>>, FALSE)

\* str.splitlines() of a text whose line ends are the tokens Lit("\n").
RECURSIVE Splitlines(_)
Splitlines(s) ==
    IF s = <<>> THEN <<>>
    ELSE LET ends == {i \in 1..Len(s) : s[i] = Lit("\n")}
         IN  IF ends = {} THEN <<s>>
             ELSE LET e == CHOOSE i \in ends : \A j \in ends : i <= j
                  IN  <<SubSeq(s, 1, e - 1)>> \o Splitlines(SubSeq(s, e + 1, Len(s)))

columnize_list(label, lst) ==
    IF lst = <<>> THEN <<>>
    ELSE [i \in 1..Len(lst) |->
            [label |-> IF i = 1 THEN PyStr(<<Lit(label)>>) ELSE None, text |-> lst[i]]]

columnize_text(label, text) ==
    columnize_list(label, IF Truthy(text) THEN Splitlines(text.s) ELSE <<>>)

Default_detailed(f, todo) ==
    LET extra_rows == columnize_text("Description", todo.description)
                      \o columnize_text("Location", todo.location)
        compact == Default_compact(f, todo)
    IN  IF extra_rows # <<>> /\ compact.kind # "raise"
        THEN [kind |-> "detailed", compact |-> compact, extra |-> Tabulate(extra_rows)]
        ELSE compact

----------------------------------------------------------------------------
(* The structured serialization.                                           *)

todo_as_dict(f, todo) ==
    [ completed |-> PyBool(todo.is_completed),
      due       |-> format_datetime(f, todo.due),
      id        |-> todo.id,
      list      |-> todo.list.name,
      percent   |-> todo.percent_complete,
      summary   |-> todo.summary,
      priority  |-> todo.priority,
      location  |-> todo.location ]

\* json.dumps(value, indent=4, sort_keys=True): the value it serializes.
JsonDumps(value) == [kind |-> "json", value |-> value]

Porcelain_compact(f, todo) == JsonDumps(todo_as_dict(f, todo))

Porcelain_compact_multiple(f, todos, hide_list) ==
    JsonDumps([i \in 1..Len(todos) |-> todo_as_dict(f, todos[i])])

\* As PorcelainFormatter without its own simple_action: the inherited one.
Porcelain_simple_action_Inherited(f, action, todo) ==
    Default_simple_action(f, action, todo)

Porcelain_simple_action(f, action, todo) == Porcelain_compact(f, todo)

Porcelain_detailed(f, todo) == Porcelain_compact(f, todo)

----------------------------------------------------------------------------
(* Method resolution: the method an instance's class resolves each name to.*)

simple_action(f, action, todo) ==
    IF f.cls = "PorcelainFormatter" THEN Porcelain_simple_action(f, action, todo)
    ELSE Default_simple_action(f, action, todo)

compact(f, todo) ==
    IF f.cls = "PorcelainFormatter" THEN Porcelain_compact(f, todo)
    ELSE Default_compact(f, todo)

compact_multiple(f, todos, hide_list) ==
    IF f.cls = "PorcelainFormatter" THEN Porcelain_compact_multiple(f, todos, hide_list)
    ELSE Default_compact_multiple(f, todos, hide_list)

detailed(f, todo) ==
    IF f.cls = "PorcelainFormatter" THEN Porcelain_detailed(f, todo)
    ELSE Default_detailed(f, todo)

----------------------------------------------------------------------------
(* DefaultFormatter.parse_datetime, one step per attempt.                  *)

Order == <<"datetime", "date", "time", "fuzzy">>

\* Whether an attempt of _parse_datetime_naive succeeds on the text dt;
\* fz is what the parsedatetime calendar makes of the same text.
Succeeds(f, attempt, dt, fz) ==
    CASE attempt = "datetime" -> StrptimeMatches(dt.s, f.datetime_format)
      [] attempt = "date"     -> StrptimeMatches(dt.s, f.date_format)
      [] attempt = "time"     -> StrptimeMatches(dt.s, f.time_format)
      [] OTHER                -> fz.hasDateOrTime

\* What a successful attempt returns: a naive date-time or a date.
Returns(f, attempt, dt, fz) ==
    CASE attempt = "datetime" -> Strptime(dt.s, f.datetime_format)
      [] attempt = "date"     -> DateOf(Strptime(dt.s, f.date_format))
      [] attempt = "time"     -> Combine(DateOf(f.now), TimeOf(Strptime(dt.s, f.time_format)))
      [] OTHER                -> DateTime(fz.wall, None)

\* As AfterAttempt with the combined pattern's success not returning.
AfterAttempt_FallsThrough(attempt, succeeded) ==
    IF attempt = "datetime" THEN "date"
    ELSE IF succeeded THEN "return"
    ELSE CASE attempt = "date" -> "time"
           [] attempt = "time" -> "fuzzy"
           [] OTHER            -> "raise"

\* Where _parse_datetime_naive goes after an attempt: a success returns,
\* a failed strict attempt falls to the next one, a failed fuzzy parse raises.
AfterAttempt(attempt, succeeded) ==
    IF succeeded THEN "return"
    ELSE CASE attempt = "datetime" -> "date"
           [] attempt = "date"     -> "time"
           [] attempt = "time"     -> "fuzzy"
           [] OTHER                -> "raise"

\* The tail of parse_datetime: a date-time gets the formatter's zone.
AttachTz(f, rv) == IF IsDateTime(rv) THEN ReplaceTz(rv, f.tz) ELSE rv

\* As AfterCall with parse_datetime reading the clock again.
AfterCall_Resampled(f, op) ==
    IF op = "parse_datetime"
    THEN [f EXCEPT !.now = ReplaceTz(DatetimeNow(clock), f.tz)]
    ELSE f

\* The fields of the instance once a method has run: the body of no method
\* assigns to an attribute of self, whether it returns or raises.
AfterCall(f, op) == f

Idle == [pc |-> "idle"]

ParseBegin(dts, fzs) ==
    /\ parse.pc \in {"idle", "done"}
    /\ self.cls # "PorcelainFormatter"
    /\ \E dt \in dts, fz \in fzs :
          parse' = IF ~Truthy(dt)
                   THEN [pc |-> "done", dt |-> dt, fz |-> fz, tried |-> <<>>,
                         rv |-> None, out |-> None]
                   ELSE [pc |-> "datetime", dt |-> dt, fz |-> fz, tried |-> <<>>,
                         rv |-> None, out |-> None]
    /\ self' = AfterCall(self, "parse_datetime")
    /\ UNCHANGED <<clock, frame>>

ParseAttempt ==
    /\ parse.pc \in {"datetime", "date", "time", "fuzzy"}
    /\ LET ok == Succeeds(self, parse.pc, parse.dt, parse.fz)
           to == AfterAttempt(parse.pc, ok)
       IN  parse' = [parse EXCEPT
                        !.tried = Append(@, parse.pc),
                        !.pc = IF to = "raise" THEN "done" ELSE to,
                        !.rv = IF ok THEN Returns(self, parse.pc, parse.dt, parse.fz)
                               ELSE @,
                        !.out = IF to = "raise"
                                THEN Raise("ValueError: Time description not recognized")
                                ELSE @]
    /\ self' = AfterCall(self, "parse_datetime")
    /\ UNCHANGED <<clock, frame>>

ParseReturn ==
    /\ parse.pc = "return"
    /\ parse' = [parse EXCEPT !.pc = "done", !.out = AttachTz(self, parse.rv)]
    /\ self' = AfterCall(self, "parse_datetime")
    /\ UNCHANGED <<clock, frame>>

----------------------------------------------------------------------------
(* Calls that run in one step.                                             *)

NoCall == [op |-> "none", arg |-> None, out |-> None, prev |-> None]

Returned(op, arg, out) == [op |-> op, arg |-> arg, out |-> out, prev |-> None]

Call_rgb_to_ansi(colours) ==
    /\ \E colour \in colours :
          frame' = Returned("rgb_to_ansi", colour, rgb_to_ansi(colour))
    /\ UNCHANGED <<self, clock, parse>>

Call_format_database(databases) ==
    /\ \E database \in databases :
          frame' = Returned("format_database", database, format_database(self, database))
    /\ self' = AfterCall(self, "format_database")
    /\ UNCHANGED <<clock, parse>>

Call_parse_priority(texts) ==
    /\ \E priority \in texts :
          frame' = Returned("parse_priority", priority, parse_priority(self, priority))
    /\ self' = AfterCall(self, "parse_priority")
    /\ UNCHANGED <<clock, parse>>

Call_format_priority(priorities) ==
    /\ \E priority \in priorities :
          frame' = Returned("format_priority", priority, format_priority(self, priority))
    /\ self' = AfterCall(self, "format_priority")
    /\ UNCHANGED <<clock, parse>>

\* format_priority(parse_priority(name)): the caller hands on what it got.
Call_format_priority_of_parsed ==
    /\ frame.op = "parse_priority"
    /\ frame.out.kind # "raise"
    /\ frame' = [op |-> "format_priority", arg |-> frame.out,
                 out |-> format_priority(self, frame.out), prev |-> frame.arg]
    /\ self' = AfterCall(self, "format_priority")
    /\ UNCHANGED <<clock, parse>>

Call_format_priority_compact(priorities) ==
    /\ \E priority \in priorities :
          frame' = Returned("format_priority_compact", priority,
                            format_priority_compact(self, priority))
    /\ self' = AfterCall(self, "format_priority_compact")
    /\ UNCHANGED <<clock, parse>>

Call_format_datetime(dts) ==
    /\ \E dt \in dts :
          frame' = Returned("format_datetime", dt, format_datetime(self, dt))
    /\ self' = AfterCall(self, "format_datetime")
    /\ UNCHANGED <<clock, parse>>

Call_Porcelain_parse_datetime(values) ==
    /\ self.cls = "PorcelainFormatter"
    /\ \E value \in values :
          frame' = Returned("parse_datetime", value, Porcelain_parse_datetime(self, value))
    /\ self' = AfterCall(self, "parse_datetime")
    /\ UNCHANGED <<clock, parse>>

\* parse_datetime(format_datetime(dt)) of the structured formatter.
Call_Porcelain_parse_datetime_of_formatted ==
    /\ self.cls = "PorcelainFormatter"
    /\ frame.op = "format_datetime"
    /\ frame' = [op |-> "parse_datetime", arg |-> frame.out,
                 out |-> Porcelain_parse_datetime(self, frame.out), prev |-> frame.arg]
    /\ self' = AfterCall(self, "parse_datetime")
    /\ UNCHANGED <<clock, parse>>

Call_simple_action(actions, todos) ==
    /\ \E action \in actions, todo \in todos :
          frame' = Returned("simple_action", [action |-> action, todo |-> todo],
                            simple_action(self, action, todo))
    /\ self' = AfterCall(self, "simple_action")
    /\ UNCHANGED <<clock, parse>>

Call_compact(todos) ==
    /\ \E todo \in todos :
          frame' = Returned("compact", [todo |-> todo], compact(self, todo))
    /\ self' = AfterCall(self, "compact")
    /\ UNCHANGED <<clock, parse>>

Call_compact_multiple(lists) ==
    /\ \E todos \in lists, hide_list \in BOOLEAN :
          frame' = Returned("compact_multiple", [todos |-> todos, hide_list |-> hide_list],
                            compact_multiple(self, todos, hide_list))
    /\ self' = AfterCall(self, "compact_multiple")
    /\ UNCHANGED <<clock, parse>>

Call_detailed(todos) ==
    /\ \E todo \in todos :
          frame' = Returned("detailed", [todo |-> todo], detailed(self, todo))
    /\ self' = AfterCall(self, "detailed")
    /\ UNCHANGED <<clock, parse>>

\* The wall clock advances; the instance is not told.
Tick ==
    /\ clock.utc < MaxClock
    /\ clock' = [clock EXCEPT !.utc = @ + 1]
    /\ UNCHANGED <<self, frame, parse>>

----------------------------------------------------------------------------
(* Construction, and the inputs of the calls.                              *)

DefaultDateFormat == <<DateDirective>>     \* '%Y-%m-%d'
DefaultTimeFormat == <<TimeDirective>>     \* '%H:%M'
DefaultSeparator == <<Lit(" ")>>           \* ' '

\* The state after the instance is constructed: the clock is read once.
InitWith(classes, date_formats, time_formats, separators, overrides, locals, starts) ==
    /\ \E utc \in starts, tzlocal \in locals :
          clock = [utc |-> utc, tzlocal |-> tzlocal]
    /\ \E cls \in classes, df \in date_formats, tf \in time_formats,
           sep \in separators, tz_override \in overrides :
          self = FormatterInit(cls, df, tf, sep, tz_override, clock)
    /\ frame = NoCall
    /\ parse = Idle

\* A specification of pure functions applies one to each of its inputs:
\* the first call of a fresh instance.
FirstCall == frame = NoCall

\* The colour mapper alone.
InitColour ==
    InitWith({"DefaultFormatter"}, {DefaultDateFormat}, {DefaultTimeFormat},
             {DefaultSeparator}, {None}, {UTC}, {0})

NextColour == FirstCall /\ Call_rgb_to_ansi(Colours)

SpecColour == InitColour /\ [][NextColour]_vars

\* The priority mapper of the three classes.
InitPriority ==
    InitWith(Classes, {DefaultDateFormat}, {DefaultTimeFormat},
             {DefaultSeparator}, {None}, {UTC}, {0})

NextPriority ==
    \/ FirstCall /\ Call_parse_priority(PriorityTexts)
    \/ FirstCall /\ Call_format_priority(PriorityInts)
    \/ Call_format_priority_of_parsed
    \/ FirstCall /\ Call_format_priority_compact(PriorityInts)

SpecPriority == InitPriority /\ [][NextPriority]_vars

\* The structured formatter's format_datetime and parse_datetime.
DateTimes ==
    {None} \cup {Date(d) : d \in (0 - 1)..1}
           \cup {DateTime(w, tz) : w \in (0 - 2 * DayTicks)..(2 * DayTicks),
                                   tz \in {None, UTC, Tz(1)}}

EpochValues == {None} \cup {PyInt(n) : n \in (0 - 2)..2}

InitStructured ==
    InitWith({"PorcelainFormatter"}, {DefaultDateFormat}, {DefaultTimeFormat},
             {DefaultSeparator}, {None}, {UTC, Tz(1)}, {0})

NextStructured ==
    \/ FirstCall /\ Call_format_datetime(DateTimes)
    \/ FirstCall /\ Call_Porcelain_parse_datetime(EpochValues)
    \/ Call_Porcelain_parse_datetime_of_formatted

SpecStructured == InitStructured /\ [][NextStructured]_vars

\* DefaultFormatter.parse_datetime, as the plain and the humanized
\* formatter run it, under each shape of the configured patterns.
ParseTokens == {DateTok(1), TimeTok(1), Lit(" "), Word}

ParseTexts == {None} \cup {PyStr(s) : s \in SeqsUpTo(ParseTokens, MaxTextLen)}

\* What the parsedatetime calendar may make of a text: nothing, or a moment.
FuzzyOutcomes ==
    { [hasDateOrTime |-> FALSE, wall |-> 0],
      [hasDateOrTime |-> TRUE, wall |-> DayTicks + 1] }

InitParse ==
    InitWith({"DefaultFormatter", "HumanizedFormatter"},
             {DefaultDateFormat, <<>>}, {DefaultTimeFormat, <<>>},
             {DefaultSeparator, <<>>}, {None}, {Tz(1)}, {0, DayTicks + 1})

NextParse ==
    \/ parse = Idle /\ ParseBegin(ParseTexts, FuzzyOutcomes)
    \/ ParseAttempt
    \/ ParseReturn

SpecParse == InitParse /\ [][NextParse]_vars

\* The record renderer of the three classes.
SampleColours ==
    { None, PyStr(<<>>), PyStr(<<"#", "1", "f", "1", "f", "1", "f">>),
      PyStr(<<"#", "g", "g", "g", "g", "g", "g">>),
      PyStr(<<"1", "f", "1", "f", "1", "f">>), PyStr(<<"#", "1", "f", "1">>),
      PyStr(<<"#", "1", "f", "1", "f", "1", "f", "1">>) }

Databases == {[name |-> PyStr(<<Lit("home")>>), colour |-> c] : c \in SampleColours}

\* due is absent, a date, or a date-time that bears a zone.
Dues ==
    {None} \cup {Date(d) : d \in (0 - 1)..1}
           \cup {DateTime(w, UTC) : w \in (0 - 1)..1}
           \cup {DateTime(TicksPerSecond, Tz(1))}

PlainTodo(due, done) ==
    [ id |-> PyInt(1), summary |-> PyStr(<<Lit("Buy milk")>>),
      description |-> None, location |-> None, due |-> due,
      percent_complete |-> None, priority |-> None,
      is_completed |-> done, is_recurring |-> FALSE,
      list |-> [name |-> PyStr(<<Lit("home")>>), colour |-> None] ]

RichTodo(due, done) ==
    [ id |-> PyInt(2), summary |-> PyStr(<<Lit("Write report")>>),
      description |-> PyStr(<<Lit("draft"), Lit("\n"), Lit("review")>>),
      location |-> PyStr(<<Lit("office")>>), due |-> due,
      percent_complete |-> PyInt(50), priority |-> PyInt(4),
      is_completed |-> done, is_recurring |-> TRUE,
      list |-> [name |-> PyStr(<<Lit("work")>>),
                colour |-> PyStr(<<"#", "1", "f", "1", "f", "1", "f">>)] ]

Todos ==
    {PlainTodo(due, done) : due \in Dues, done \in BOOLEAN}
    \cup {RichTodo(due, done) : due \in Dues, done \in BOOLEAN}

TodoLists == SeqsUpTo(Todos, MaxTodos)

ActionTexts == {PyStr(<<Lit("Completed")>>), PyStr(<<Lit("Deleted")>>)}

InitRender ==
    InitWith(Classes, {DefaultDateFormat}, {DefaultTimeFormat},
             {DefaultSeparator}, {None}, {UTC, Tz(1)}, {0})

NextRender ==
    \/ FirstCall /\ Call_simple_action(ActionTexts, Todos)
    \/ FirstCall /\ Call_compact(Todos)
    \/ FirstCall /\ Call_compact_multiple(TodoLists)
    \/ FirstCall /\ Call_detailed(Todos)
    \/ FirstCall /\ Call_format_database(Databases)

SpecRender == InitRender /\ [][NextRender]_vars

\* One instance shared by callers: every operation, again and again, also
\* between the steps of a parse_datetime in flight, while the clock runs.
FewColours == {None, PyStr(<<"#", "1", "f", "1", "f", "1", "f">>),
               PyStr(<<"#", "g", "g", "g", "g", "g", "g">>)}

FewDatabases == {[name |-> PyStr(<<Lit("home")>>), colour |-> c] : c \in FewColours}

FewPriorityTexts == {None, PyStr(<<"high">>), PyStr(<<"1">>), PyStr(<<"a">>)}

FewPriorityInts == {None, PyInt(5), PyInt(11)}

FewDateTimes == {None, Date(0), DateTime(1, UTC), DateTime(1, None)}

FewTodos == {PlainTodo(Date(0), FALSE), RichTodo(DateTime(1, UTC), FALSE)}

FewTexts ==
    { None, PyStr(<<DateTok(1)>>), PyStr(<<TimeTok(1)>>),
      PyStr(<<DateTok(1), Lit(" "), TimeTok(1)>>), PyStr(<<Word>>) }

Init ==
    InitWith(Classes, {DefaultDateFormat}, {DefaultTimeFormat, <<>>},
             {DefaultSeparator}, {None, Tz(1)}, {UTC}, {0})

Next ==
    \/ Call_rgb_to_ansi(FewColours)
    \/ Call_format_database(FewDatabases)
    \/ Call_parse_priority(FewPriorityTexts)
    \/ Call_format_priority(FewPriorityInts)
    \/ Call_format_priority_of_parsed
    \/ Call_format_priority_compact(FewPriorityInts)
    \/ Call_format_datetime(FewDateTimes)
    \/ Call_Porcelain_parse_datetime(EpochValues)
    \/ Call_Porcelain_parse_datetime_of_formatted
    \/ Call_simple_action(ActionTexts, FewTodos)
    \/ Call_compact(FewTodos)
    \/ Call_compact_multiple(SeqsUpTo(FewTodos, 1))
    \/ Call_detailed(FewTodos)
    \/ ParseBegin(FewTexts, FuzzyOutcomes)
    \/ ParseAttempt
    \/ ParseReturn
    \/ Tick

Spec == Init /\ [][Next]_vars

----------------------------------------------------------------------------
(* Properties.                                                             *)

\* A colour of the shape '#' and six hex digits.
IsHashRRGGBB(colour) ==
    /\ colour # None
    /\ Len(colour.s) = 7
    /\ colour.s[1] = "#"
    /\ \A i \in 2..7 : colour.s[i] \in HexDigits

Channel(colour, i) == 16 * HexVal(colour.s[i]) + HexVal(colour.s[i + 1])

\* C2: rgb_to_ansi never raises; it returns the truecolor escape sequence
\* of the decoded R, G, B exactly when the input is '#' and six hex digits,
\* and returns absent for every other input.
C2_ColourNeverRaises ==
    frame.op = "rgb_to_ansi" =>
        IF IsHashRRGGBB(frame.arg)
        THEN frame.out = Ansi(Channel(frame.arg, 2), Channel(frame.arg, 4),
                              Channel(frame.arg, 6))
        ELSE frame.out = None

\* C3: the structured parse_priority has three outcomes: absent for an
\* absent input, n for a text that int() reads as n in 0..9, and the
\* parameter error (never a plain value error) for every other text.
C3_StructuredParsePriority ==
    (self.cls = "PorcelainFormatter" /\ frame.op = "parse_priority") =>
        IF frame.arg = None THEN frame.out = None
        ELSE IF IsIntLiteral(frame.arg.s) /\ IntOf(frame.arg.s) \in 0..9
             THEN frame.out = PyInt(IntOf(frame.arg.s))
        ELSE frame.out = Raise("click.BadParameter")

\* C3's case: an integer outside 0..9 has been refused with the parameter error.
C3_Witness ==
    /\ self.cls = "PorcelainFormatter"
    /\ frame.op = "parse_priority"
    /\ frame.arg = PyStr(<<"1", "0">>)
    /\ frame.out = Raise("click.BadParameter")

Representative(name) ==
    CASE name = <<"none">>   -> 0
      [] name = <<"high">>   -> 4
      [] name = <<"medium">> -> 5
      [] name = <<"low">>    -> 9

Band(n) ==
    IF n = 0 THEN <<"none">>
    ELSE IF n <= 4 THEN <<"high">>
    ELSE IF n = 5 THEN <<"medium">>
    ELSE <<"low">>

\* C9: outside the structured formatter parse_priority maps none, high,
\* medium, low to 0, 4, 5, 9 and format_priority(parse_priority(name)) is
\* name; format_priority maps every integer of 1..9 to its band and 0 or
\* absent to none.
C9_PriorityNamesRoundTrip ==
    /\ (self.cls # "PorcelainFormatter" /\ frame.op = "parse_priority"
          /\ frame.arg # None /\ frame.arg.s \in PriorityNames)
        => frame.out = PyInt(Representative(frame.arg.s))
    /\ (self.cls # "PorcelainFormatter" /\ frame.op = "format_priority"
          /\ frame.prev # None /\ frame.prev.s \in PriorityNames)
        => frame.out = frame.prev
    /\ (frame.op = "format_priority" /\ frame.arg = None)
        => frame.out = PyStr(<<"none">>)
    /\ (frame.op = "format_priority" /\ frame.arg # None /\ frame.arg.v \in 0..9)
        => frame.out = PyStr(Band(frame.arg.v))

\* C9's case: high has been parsed, and the result formatted back to high.
C9_Witness ==
    /\ self.cls = "DefaultFormatter"
    /\ frame.op = "format_priority"
    /\ frame.prev = PyStr(<<"high">>)
    /\ frame.arg = PyInt(4)
    /\ frame.out = PyStr(<<"high">>)

Glyphs(n) == IF n = 0 THEN 0 ELSE IF n <= 4 THEN 3 ELSE IF n = 5 THEN 2 ELSE 1

\* C10: format_priority_compact returns 3 glyphs for 1..4, 2 for 5, 1 for
\* 6..9 and the empty string for 0 or absent, so the glyph count never
\* grows as the priority grows from 1 to 9.
C10_CompactGlyphs ==
    /\ (frame.op = "format_priority_compact" /\ frame.arg = None)
        => frame.out = PyStr(<<>>)
    /\ (frame.op = "format_priority_compact" /\ frame.arg # None
          /\ frame.arg.v \in 0..9)
        => /\ frame.out.kind = "str"
           /\ Len(frame.out.s) = Glyphs(frame.arg.v)
           /\ \A i \in 1..Len(frame.out.s) : frame.out.s[i] = Lit("!")
           /\ \A q \in 1..9 :
                 frame.arg.v \in 1..q =>
                     Len(frame.out.s) >= Len(format_priority_compact(self, PyInt(q)).s)

\* C10's case: the medium priority has been rendered with two glyphs.
C10_Witness ==
    /\ frame.op = "format_priority_compact"
    /\ frame.arg = PyInt(5)
    /\ frame.out = PyStr(<<Lit("!"), Lit("!")>>)

\* C1: in the structured formatter parse_datetime(format_datetime(dt)) is,
\* for every date-time dt, a date-time in UTC whose epoch seconds are the
\* whole epoch seconds of dt.
C1_StructuredRoundTrip ==
    (frame.op = "parse_datetime" /\ IsDateTime(frame.prev)) =>
        /\ IsDateTime(frame.out)
        /\ frame.out.tz = UTC
        /\ frame.out.wall = Trunc(Instant(frame.prev), TicksPerSecond) * TicksPerSecond

IsPrefix(s, t) == Len(s) <= Len(t) /\ s = SubSeq(t, 1, Len(s))

\* C4: parse_datetime on a non-empty text tries combined, date-only,
\* time-only, fuzzy in this order; nothing is tried after a success; the
\* first success gives the result; the fuzzy parser runs only after the
\* three patterns failed; and the value error is raised only after the
\* three patterns failed and the fuzzy parser found neither date nor time.
C4_FirstSuccessWins ==
    (parse.pc # "idle" /\ Truthy(parse.dt)) =>
        LET tried == parse.tried
            ok(a) == Succeeds(self, a, parse.dt, parse.fz)
        IN  /\ IsPrefix(tried, Order)
            /\ \A i \in 1..(Len(tried) - 1) : ~ok(tried[i])
            /\ parse.pc \in {"datetime", "date", "time", "fuzzy"}
                => /\ parse.pc = Order[Len(tried) + 1]
                   /\ \A i \in 1..Len(tried) : ~ok(tried[i])
            /\ parse.pc = "return"
                => /\ tried # <<>>
                   /\ ok(tried[Len(tried)])
                   /\ parse.rv = Returns(self, tried[Len(tried)], parse.dt, parse.fz)
            /\ (parse.pc = "done" /\ parse.out.kind # "raise")
                => /\ tried # <<>>
                   /\ ok(tried[Len(tried)])
                   /\ parse.out = AttachTz(self, Returns(self, tried[Len(tried)],
                                                         parse.dt, parse.fz))
            /\ (parse.pc = "done" /\ parse.out.kind = "raise")
                => /\ tried = Order
                   /\ \A i \in 1..4 : ~ok(Order[i])
                   /\ parse.out = Raise("ValueError: Time description not recognized")

\* C4's case: the time-only pattern succeeded after the two before it
\* failed, and the fuzzy parser was not called.
C4_Witness ==
    /\ parse.pc = "done"
    /\ parse.tried = <<"datetime", "date", "time">>
    /\ IsDateTime(parse.out)
    /\ StrptimeMatches(parse.dt.s, self.time_format)
    /\ parse.fz.hasDateOrTime

\* The condition of the overdue highlight, on the captured now.
Overdue(todo) ==
    /\ todo.due # None
    /\ ~todo.is_completed
    /\ IF IsDate(todo.due) THEN todo.due.day <= DateOf(self.now).day
       ELSE Instant(todo.due) <= Instant(self.now)

IsRed(cell) == cell # <<>> /\ cell[1] = Sgr("31")

\* C5: in every table compact_multiple renders outside the structured
\* formatter, the due text of a record is red iff due is present, due <= the
\* captured now (its calendar date for a pure date) and the record is not
\* completed.
C5_OverdueHighlight ==
    (self.cls # "PorcelainFormatter" /\ frame.op = "compact_multiple"
       /\ frame.out.kind = "table") =>
        \A i \in 1..Len(frame.arg.todos) :
            IsRed(frame.out.rows[i].due) <=> Overdue(frame.arg.todos[i])

\* C5's case: of two records due exactly now, the open one is red and the
\* completed one is not.
C5_Witness ==
    /\ self.cls = "DefaultFormatter"
    /\ frame.op = "compact_multiple"
    /\ frame.out.kind = "table"
    /\ Len(frame.arg.todos) = 2
    /\ frame.arg.todos[1].due = self.now
    /\ ~frame.arg.todos[1].is_completed
    /\ IsRed(frame.out.rows[1].due)
    /\ frame.arg.todos[2].due = self.now
    /\ frame.arg.todos[2].is_completed
    /\ ~IsRed(frame.out.rows[2].due)

EightKeys ==
    {"completed", "due", "id", "list", "percent", "summary", "priority", "location"}

\* C6: in the structured formatter simple_action, detailed and compact
\* return one serialization of the record: a map of exactly the eight keys,
\* each carrying the record's field, and nothing of the action text or the
\* description.
C6_StructuredSerialization ==
    (self.cls = "PorcelainFormatter"
       /\ frame.op \in {"simple_action", "detailed", "compact"}) =>
        LET todo == frame.arg.todo
            d == frame.out.value
        IN  /\ frame.out.kind = "json"
            /\ DOMAIN d = EightKeys
            /\ d.completed = PyBool(todo.is_completed)
            /\ d.due = Porcelain_format_datetime(self, todo.due)
            /\ d.id = todo.id
            /\ d.list = todo.list.name
            /\ d.percent = todo.percent_complete
            /\ d.summary = todo.summary
            /\ d.priority = todo.priority
            /\ d.location = todo.location

\* C6's case: simple_action has serialized a record that has a description.
C6_Witness ==
    /\ self.cls = "PorcelainFormatter"
    /\ frame.op = "simple_action"
    /\ frame.arg.todo.description # None
    /\ frame.out.kind = "json"
    /\ frame.out.value.due.kind = "int"

\* C7: no step of any operation of any class changes the date pattern, the
\* time pattern, the separator, the combined pattern, the zone or the
\* captured now.
C7_FieldsNeverChange ==
    [][ /\ self'.date_format = self.date_format
        /\ self'.time_format = self.time_format
        /\ self'.dt_separator = self.dt_separator
        /\ self'.datetime_format = self.datetime_format
        /\ self'.tz = self.tz
        /\ self'.now = self.now ]_vars

\* C7's case: the clock has run on, a call has returned and a
\* parse_datetime has ended, and now is still the reading of construction.
C7_Witness ==
    /\ clock.utc = MaxClock
    /\ frame.op = "compact_multiple"
    /\ parse.pc = "done"
    /\ parse.out.kind = "raise"
    /\ self.tz = clock.tzlocal
    /\ Instant(self.now) < clock.utc

\* The colour prefix of a list: the escape sequence, or nothing.
Prefix(database) ==
    LET colour == rgb_to_ansi(database.colour)
    IN  IF colour.kind = "ansi" THEN <<colour>> ELSE <<>>

\* C8 as stated: format_database returns the colour prefix (empty for an
\* absent or malformed colour) immediately followed by the list's name.
C8_PrefixThenName ==
    frame.op = "format_database" =>
        /\ frame.out.kind = "str"
        /\ frame.out.s = Prefix(frame.arg) \o frame.arg.name.s \o <<Sgr("0")>>

\* C8, amended: where the colour mapper returns, format_database returns the
\* colour prefix (empty for an absent colour), then '@', then the list's name
\* in the default text style; where the colour mapper raises, it raises too.
C8_PrefixAtName ==
    frame.op = "format_database" =>
        IF rgb_to_ansi(frame.arg.colour).kind = "raise"
        THEN frame.out = Raise("ValueError")
        ELSE /\ frame.out.kind = "str"
             /\ frame.out.s = Prefix(frame.arg) \o <<Lit("@")>> \o frame.arg.name.s
                               \o <<Sgr("0")>>

\* C8's case: a list with a well-formed colour has been rendered.
C8_Witness ==
    /\ frame.op = "format_database"
    /\ frame.arg.colour = PyStr(<<"#", "1", "f", "1", "f", "1", "f">>)
    /\ frame.out.kind = "str"
    /\ frame.out.s[1] = Ansi(31, 31, 31)

====
